---- MODULE Spec2Model ----
(***************************************************************************)
(* A model of the mqtt_gnss repository: the GNSS receiver                  *)
(* (gnss_receiver.cpp, kept here as src/unnamed/part_000) and the GNSS     *)
(* sender (src/src/gnss_sender.cpp).                                       *)
(*                                                                         *)
(* A std::string is a sequence of one-character strings; Ord gives the     *)
(* byte value of the characters the checksum folds.                        *)
(***************************************************************************)
EXTENDS Integers, Sequences, FiniteSets, TLC

VARIABLES
    pc,               \* receiver: position of main()
    receivedMessage,  \* receiver: the global std::string receivedMessage
    running,          \* receiver: the global std::atomic<bool> running
    isValid,          \* receiver: the local isValid of the loop body
    db,               \* receiver: rows of table GNSS_DATA, in ID order
    schemaOk,         \* receiver: whether CREATE TABLE returned SQLITE_OK
    exitCode,         \* receiver: value returned by main ("none" while running)
    inPoll,           \* receiver: deliveries dispatched by the current mosquitto_loop call
    delivered,        \* history: payloads passed to on_message, in order
    superseded,       \* history: indices of deliveries overwritten before the loop read them
    logged,           \* history: <<delivery index, text>> passed to logGNSSData
    validated,        \* history: <<text, result>> of every validateNMEAFormat call
    attempts,         \* history: <<text, rc, environment failed>> of every storeValidData call
    pollsAfterStop,   \* history: mosquitto_loop calls begun while running was false
    stopAt,           \* history: where main was when the first signal arrived
    spc,              \* sender: position of main()
    i,                \* sender: the loop counter of main()
    gnssData,         \* sender: the sentence built by the last gnssDataHandler
    published,        \* sender: number of mosquitto_publish calls that returned success
    pubFailed,        \* sender: number of mosquitto_publish calls that returned an error
    sExit,            \* sender: value returned by main ("none" while running)
    cpc,              \* codec: position of the encode-then-validate round trip
    fix,              \* codec: the clock value and rand() draws of the generateGNSSData call
    nmeaData,         \* codec: the sentence generateGNSSData returned
    accepted,         \* codec: what validateNMEAFormat returned for nmeaData
    prevFix,          \* codec: the clock value and draws of the call before the last one
    prevData,         \* codec: the sentence the call before the last one returned
    received,         \* codec: the sentence as it arrives, one bit possibly flipped
    tamper,           \* codec: <<position, bit>> of the flipped bit, <<>> when none
    verified          \* codec: what the checksum verification returned for received

rvars == <<pc, receivedMessage, running, isValid, db, schemaOk, exitCode, inPoll,
           delivered, superseded, logged, validated, attempts, pollsAfterStop,
           stopAt>>
svars == <<spc, i, gnssData, published, pubFailed, sExit>>
wvars == <<prevFix, prevData, received, tamper, verified>>
cvars == <<cpc, fix, nmeaData, accepted, prevFix, prevData, received, tamper, verified>>
vars == <<pc, receivedMessage, running, isValid, db, schemaOk, exitCode, inPoll,
          delivered, superseded, logged, validated, attempts, pollsAfterStop, stopAt,
          spc, i, gnssData, published, pubFailed, sExit,
          cpc, fix, nmeaData, accepted, prevFix, prevData, received, tamper, verified>>

(***************************************************************************)
(* Bounds of the model.                                                    *)
(***************************************************************************)
\* Deliveries the transport makes over one run of the receiver.
MaxDeliveries == 2
\* Deliveries one mosquitto_loop call may dispatch.
MaxPerPoll == 2
\* pollsAfterStop stops counting at this many calls.
MaxPollsCounted == 2

(***************************************************************************)
(* Strings.                                                                *)
(***************************************************************************)
\* The literal "$GPRMC" of validateNMEAFormat.
GPRMC == <<"$", "G", "P", "R", "M", "C">>

\* std::string::npos, as a position no string has.
npos == -1

\* Whether pat occurs in s at 0-based position p.
MatchesAt(s, pat, p) ==
    /\ p >= 0
    /\ p + Len(pat) <= Len(s)
    /\ \A k \in 1..Len(pat) : s[p + k] = pat[k]

\* s.rfind(pat, pos): the last 0-based position <= pos where pat occurs, or npos.
rfind(s, pat, pos) ==
    LET hits == {p \in 0..pos : MatchesAt(s, pat, p)}
    IN  IF hits = {} THEN npos
        ELSE CHOOSE p \in hits : \A q \in hits : q <= p

\* s.find(pat): the first 0-based position where pat occurs, or npos.
find(s, pat) ==
    LET hits == {p \in 0..Len(s) : MatchesAt(s, pat, p)}
    IN  IF hits = {} THEN npos
        ELSE CHOOSE p \in hits : \A q \in hits : p <= q

\* A validator that accepts the literal anywhere in the string.
validateNMEAFormat_anywhere(gnssDataArg) ==
    find(gnssDataArg, GPRMC) # npos

\* A validator that also wants a '*' somewhere in the string.
validateNMEAFormat_strict(gnssDataArg) ==
    /\ rfind(gnssDataArg, GPRMC, 0) = 0
    /\ find(gnssDataArg, <<"*">>) # npos

\* validateNMEAFormat: true iff rfind("$GPRMC", 0) == 0.
validateNMEAFormat(gnssDataArg) ==
    rfind(gnssDataArg, GPRMC, 0) = 0

(***************************************************************************)
(* The store: sqlite3_exec on the statement storeValidData builds.         *)
(***************************************************************************)
\* The text before the quoted value, kept as one token of the statement.
INSERT_HEAD == "INSERT INTO GNSS_DATA (NMEA_DATA) VALUES ("

\* The statement storeValidData concatenates around the payload.
InsertSql(gnssDataArg) ==
    <<INSERT_HEAD, "'">> \o gnssDataArg \o <<"'", ")", ";">>

\* SQL string literal: the position of the quote that closes the literal whose
\* first character is at p (a doubled quote is one quote of the value), or 0
\* when the text ends inside the literal.
RECURSIVE LiteralEnd(_, _)
LiteralEnd(text, p) ==
    IF p > Len(text) THEN 0
    ELSE IF text[p] # "'" THEN LiteralEnd(text, p + 1)
    ELSE IF p + 1 <= Len(text) /\ text[p + 1] = "'" THEN LiteralEnd(text, p + 2)
    ELSE p

\* The value of a literal's text: each doubled quote is one quote.
RECURSIVE Unquote(_)
Unquote(lit) ==
    IF lit = <<>> THEN <<>>
    ELSE IF Len(lit) >= 2 /\ lit[1] = "'" /\ lit[2] = "'"
         THEN <<"'">> \o Unquote(SubSeq(lit, 3, Len(lit)))
    ELSE <<lit[1]>> \o Unquote(Tail(lit))

\* sqlite3_exec of an INSERT statement text on the table rows: the statement
\* runs when the value literal closes and is followed by ");" alone; envOk is
\* whether the store itself can write (disk, locks, the table being there).
sqlite3_exec(rows, sql, envOk) ==
    LET e == LiteralEnd(sql, 3)
    IN  IF e = 0 \/ SubSeq(sql, e + 1, Len(sql)) # <<")", ";">>
        THEN [rows |-> rows, rc |-> "SQLITE_ERROR"]
        ELSE IF ~envOk
        THEN [rows |-> rows, rc |-> "SQLITE_IOERR"]
        ELSE [rows |-> Append(rows, Unquote(SubSeq(sql, 3, e - 1))),
              rc |-> "SQLITE_OK"]

(***************************************************************************)
(* Inputs of the receiver.                                                 *)
(***************************************************************************)
\* Payloads the broker may deliver on gnss/data: anybody may publish there.
Payloads ==
    { <<>>,
      <<"$", "G", "P", "R", "M">>,
      <<"A", "$", "G", "P", "R", "M", "C">>,
      GPRMC \o <<",", "A">>,
      GPRMC \o <<",", "A", "*", "0", "0">>,
      GPRMC \o <<"'", "'">>,
      GPRMC \o <<"'">> }

\* A row an earlier run of the receiver left in gnss_data.db.
OldRow == GPRMC \o <<",", "V">>

(***************************************************************************)
(* The receiver: main() of gnss_receiver.cpp, one action per step.         *)
(***************************************************************************)
history == <<delivered, superseded, logged, validated, attempts, pollsAfterStop,
             stopAt>>

\* return -1 from main during setup.
SetupFailed ==
    /\ pc' = "failed"
    /\ exitCode' = "-1"

\* mosquitto_new: NULL makes main return -1.
main_mosquitto_new ==
    /\ pc = "new"
    /\ \E ok \in BOOLEAN :
          IF ok THEN pc' = "initdb" /\ UNCHANGED exitCode ELSE SetupFailed
    /\ UNCHANGED <<receivedMessage, running, isValid, db, schemaOk, inPoll>>
    /\ UNCHANGED <<history, svars, cvars>>

\* initDatabase: a failed sqlite3_open returns nullptr and main returns -1; a
\* failed CREATE TABLE is printed and the handle is returned all the same.
initDatabase ==
    /\ pc = "initdb"
    /\ \E opened \in BOOLEAN, created \in BOOLEAN :
          IF opened
          THEN pc' = "connect" /\ schemaOk' = created /\ UNCHANGED exitCode
          ELSE SetupFailed /\ UNCHANGED schemaOk
    /\ UNCHANGED <<receivedMessage, running, isValid, db, inPoll>>
    /\ UNCHANGED <<history, svars, cvars>>

\* mosquitto_connect: anything but MOSQ_ERR_SUCCESS makes main return -1.
main_mosquitto_connect ==
    /\ pc = "connect"
    /\ \E ok \in BOOLEAN :
          IF ok THEN pc' = "subscribe" /\ UNCHANGED exitCode ELSE SetupFailed
    /\ UNCHANGED <<receivedMessage, running, isValid, db, schemaOk, inPoll>>
    /\ UNCHANGED <<history, svars, cvars>>

\* mosquitto_subscribe: anything but MOSQ_ERR_SUCCESS makes main return -1.
main_mosquitto_subscribe ==
    /\ pc = "subscribe"
    /\ \E ok \in BOOLEAN :
          IF ok THEN pc' = "while" /\ UNCHANGED exitCode ELSE SetupFailed
    /\ UNCHANGED <<receivedMessage, running, isValid, db, schemaOk, inPoll>>
    /\ UNCHANGED <<history, svars, cvars>>

\* A loop that never reads the stop flag.
main_while_forever ==
    /\ pc = "while"
    /\ pc' = "poll"
    /\ UNCHANGED <<receivedMessage, running, isValid, db, schemaOk, exitCode, inPoll>>
    /\ UNCHANGED <<history, svars, cvars>>

\* while (running): the one place the stop flag is read.
main_while ==
    /\ pc = "while"
    /\ pc' = IF running THEN "poll" ELSE "cleanup"
    /\ UNCHANGED <<receivedMessage, running, isValid, db, schemaOk, exitCode, inPoll>>
    /\ UNCHANGED <<history, svars, cvars>>

\* mosquitto_loop(mosq, -1, 1) is called.
mosquitto_loop_call ==
    /\ pc = "poll"
    /\ pc' = "in_poll"
    /\ inPoll' = 0
    /\ pollsAfterStop' = IF running \/ pollsAfterStop >= MaxPollsCounted
                       THEN pollsAfterStop ELSE pollsAfterStop + 1
    /\ UNCHANGED <<receivedMessage, running, isValid, db, schemaOk, exitCode>>
    /\ UNCHANGED <<delivered, superseded, logged, validated, attempts, stopAt,
                   svars, cvars>>

\* An on_message that appends to the buffer instead of replacing it.
on_message_append(payload) ==
    /\ pc = "in_poll"
    /\ inPoll < MaxPerPoll
    /\ Len(delivered) < MaxDeliveries
    /\ receivedMessage' = receivedMessage \o payload
    /\ delivered' = Append(delivered, payload)
    /\ superseded' = IF inPoll > 0 THEN superseded \cup {Len(delivered)} ELSE superseded
    /\ inPoll' = inPoll + 1
    /\ UNCHANGED <<pc, running, isValid, db, schemaOk, exitCode>>
    /\ UNCHANGED <<logged, validated, attempts, pollsAfterStop, stopAt,
                   svars, cvars>>

\* An on_message dispatched from another thread, at any point of the loop.
on_message_anytime(payload) ==
    /\ pc \in {"while", "poll", "in_poll", "test", "log", "validate", "store", "clear"}
    /\ inPoll < MaxPerPoll
    /\ Len(delivered) < MaxDeliveries
    /\ receivedMessage' = payload
    /\ delivered' = Append(delivered, payload)
    /\ superseded' = IF inPoll > 0 THEN superseded \cup {Len(delivered)} ELSE superseded
    /\ inPoll' = inPoll + 1
    /\ UNCHANGED <<pc, running, isValid, db, schemaOk, exitCode>>
    /\ UNCHANGED <<logged, validated, attempts, pollsAfterStop, stopAt,
                   svars, cvars>>

\* An on_message that leaves the buffer alone when the payload is empty.
on_message_skip_empty(payload) ==
    /\ pc = "in_poll"
    /\ inPoll < MaxPerPoll
    /\ Len(delivered) < MaxDeliveries
    /\ receivedMessage' = IF payload = <<>> THEN receivedMessage ELSE payload
    /\ delivered' = Append(delivered, payload)
    /\ superseded' = IF inPoll > 0 THEN superseded \cup {Len(delivered)} ELSE superseded
    /\ inPoll' = inPoll + 1
    /\ UNCHANGED <<pc, running, isValid, db, schemaOk, exitCode>>
    /\ UNCHANGED <<logged, validated, attempts, pollsAfterStop, stopAt,
                   svars, cvars>>

\* on_message, dispatched from inside mosquitto_loop: the payload replaces the
\* buffer.  A delivery that follows another one of the same call overwrites it.
on_message(payload) ==
    /\ pc = "in_poll"
    /\ inPoll < MaxPerPoll
    /\ Len(delivered) < MaxDeliveries
    /\ receivedMessage' = payload
    /\ delivered' = Append(delivered, payload)
    /\ superseded' = IF inPoll > 0 THEN superseded \cup {Len(delivered)} ELSE superseded
    /\ inPoll' = inPoll + 1
    /\ UNCHANGED <<pc, running, isValid, db, schemaOk, exitCode>>
    /\ UNCHANGED <<logged, validated, attempts, pollsAfterStop, stopAt,
                   svars, cvars>>

\* mosquitto_loop returns; its return value is not read.
mosquitto_loop_return ==
    /\ pc = "in_poll"
    /\ pc' = "test"
    /\ UNCHANGED <<receivedMessage, running, isValid, db, schemaOk, exitCode, inPoll>>
    /\ UNCHANGED <<history, svars, cvars>>

\* if (!receivedMessage.empty())
\* A test of the buffer that leaves the loop at once when running is cleared.
main_if_not_empty_stop ==
    /\ pc = "test"
    /\ pc' = IF ~running THEN "cleanup"
             ELSE IF receivedMessage # <<>> THEN "log" ELSE "while"
    /\ UNCHANGED <<receivedMessage, running, isValid, db, schemaOk, exitCode, inPoll>>
    /\ UNCHANGED <<history, svars, cvars>>

main_if_not_empty ==
    /\ pc = "test"
    /\ pc' = IF receivedMessage # <<>> THEN "log" ELSE "while"
    /\ UNCHANGED <<receivedMessage, running, isValid, db, schemaOk, exitCode, inPoll>>
    /\ UNCHANGED <<history, svars, cvars>>

\* logGNSSData(receivedMessage)
logGNSSData ==
    /\ pc = "log"
    /\ logged' = Append(logged, <<Len(delivered), receivedMessage>>)
    /\ pc' = "validate"
    /\ UNCHANGED <<receivedMessage, running, isValid, db, schemaOk, exitCode, inPoll>>
    /\ UNCHANGED <<delivered, superseded, validated, attempts, pollsAfterStop, stopAt,
                   svars, cvars>>

\* A storeValidData whose caller tries again after a failed insert.
storeValidData_retry ==
    /\ pc = "store"
    /\ \E envOk \in BOOLEAN :
          LET r == sqlite3_exec(db, InsertSql(receivedMessage), envOk)
          IN  /\ db' = r.rows
              /\ attempts' = Append(attempts, <<receivedMessage, r.rc, ~envOk>>)
              /\ pc' = IF r.rc = "SQLITE_OK" THEN "clear" ELSE "store"
    /\ UNCHANGED <<receivedMessage, running, isValid, schemaOk, exitCode, inPoll>>
    /\ UNCHANGED <<delivered, superseded, logged, validated, pollsAfterStop, stopAt,
                   svars, cvars>>

\* A loop body that leaves the loop when validation fails.
main_validate_break ==
    /\ pc = "validate"
    /\ isValid' = validateNMEAFormat(receivedMessage)
    /\ validated' = Append(validated, <<receivedMessage, isValid'>>)
    /\ pc' = IF isValid' THEN "store" ELSE "cleanup"
    /\ UNCHANGED <<receivedMessage, running, db, schemaOk, exitCode, inPoll>>
    /\ UNCHANGED <<delivered, superseded, logged, attempts, pollsAfterStop, stopAt,
                   svars, cvars>>

\* bool isValid = validateNMEAFormat(receivedMessage); if (isValid)
main_validate ==
    /\ pc = "validate"
    /\ isValid' = validateNMEAFormat(receivedMessage)
    /\ validated' = Append(validated, <<receivedMessage, isValid'>>)
    /\ pc' = IF isValid' THEN "store" ELSE "clear"
    /\ UNCHANGED <<receivedMessage, running, db, schemaOk, exitCode, inPoll>>
    /\ UNCHANGED <<delivered, superseded, logged, attempts, pollsAfterStop, stopAt,
                   svars, cvars>>

\* A storeValidData whose failed insert ends the loop.
storeValidData_abort ==
    /\ pc = "store"
    /\ \E envOk \in BOOLEAN :
          LET r == sqlite3_exec(db, InsertSql(receivedMessage), envOk)
          IN  /\ db' = r.rows
              /\ attempts' = Append(attempts, <<receivedMessage, r.rc, ~envOk>>)
              /\ pc' = IF r.rc = "SQLITE_OK" THEN "clear" ELSE "cleanup"
    /\ UNCHANGED <<receivedMessage, running, isValid, schemaOk, exitCode, inPoll>>
    /\ UNCHANGED <<delivered, superseded, logged, validated, pollsAfterStop, stopAt,
                   svars, cvars>>

\* storeValidData(db, receivedMessage): one sqlite3_exec; the result is printed
\* and not returned.
storeValidData ==
    /\ pc = "store"
    /\ \E envOk \in BOOLEAN :
          LET r == sqlite3_exec(db, InsertSql(receivedMessage), envOk)
          IN  /\ db' = r.rows
              /\ attempts' = Append(attempts, <<receivedMessage, r.rc, ~envOk>>)
    /\ pc' = "clear"
    /\ UNCHANGED <<receivedMessage, running, isValid, schemaOk, exitCode, inPoll>>
    /\ UNCHANGED <<delivered, superseded, logged, validated, pollsAfterStop, stopAt,
                   svars, cvars>>

\* An end of the loop body that leaves the buffer as it is.
main_clear_keep ==
    /\ pc = "clear"
    /\ pc' = "while"
    /\ UNCHANGED <<receivedMessage, running, isValid, db, schemaOk, exitCode, inPoll>>
    /\ UNCHANGED <<history, svars, cvars>>

\* receivedMessage.clear(), the end of the loop body.
main_clear ==
    /\ pc = "clear"
    /\ receivedMessage' = <<>>
    /\ pc' = "while"
    /\ UNCHANGED <<running, isValid, db, schemaOk, exitCode, inPoll>>
    /\ UNCHANGED <<history, svars, cvars>>

\* sqlite3_close, mosquitto_destroy, mosquitto_lib_cleanup, return 0.
main_cleanup ==
    /\ pc = "cleanup"
    /\ pc' = "done"
    /\ exitCode' = "0"
    /\ UNCHANGED <<receivedMessage, running, isValid, db, schemaOk, inPoll>>
    /\ UNCHANGED <<history, svars, cvars>>

\* handle_signal, on SIGINT or SIGTERM at any point of main.
handle_signal ==
    /\ pc \notin {"done", "failed"}
    /\ running' = FALSE
    /\ stopAt' = IF running THEN pc ELSE stopAt
    /\ UNCHANGED <<pc, receivedMessage, isValid, db, schemaOk, exitCode, inPoll>>
    /\ UNCHANGED <<delivered, superseded, logged, validated, attempts, pollsAfterStop>>
    /\ UNCHANGED <<svars, cvars>>

ReceiverInit ==
    /\ pc = "new"
    /\ receivedMessage = <<>>
    /\ running = TRUE
    /\ isValid = FALSE
    /\ db \in {<<>>, <<OldRow>>}
    /\ schemaOk = FALSE
    /\ exitCode = "none"
    /\ inPoll = 0
    /\ delivered = <<>>
    /\ superseded = {}
    /\ logged = <<>>
    /\ validated = <<>>
    /\ attempts = <<>>
    /\ pollsAfterStop = 0
    /\ stopAt = "none"


(***************************************************************************)
(* The sender's encoder: generateGNSSData and its helpers.                 *)
(***************************************************************************)
LATITUDE_DEGREE_MAX == 90
LONGITUDE_DEGREE_MAX == 180
MINUTES_IN_DEGREE == 60
PRECISION_FACTOR == 1000000

\* The name given to a char that is none of the characters a sentence is
\* built from: "#" and its value in decimal.
ByteName(n) == "#" \o ToString(n)

\* The byte value of a character of a sentence.
Ord(c) ==
    CASE c = "$" -> 36  [] c = "*" -> 42  [] c = "," -> 44  [] c = "." -> 46
      [] c = "0" -> 48  [] c = "1" -> 49  [] c = "2" -> 50  [] c = "3" -> 51
      [] c = "4" -> 52  [] c = "5" -> 53  [] c = "6" -> 54  [] c = "7" -> 55
      [] c = "8" -> 56  [] c = "9" -> 57  [] c = "A" -> 65  [] c = "C" -> 67
      [] c = "E" -> 69  [] c = "G" -> 71  [] c = "M" -> 77  [] c = "N" -> 78
      [] c = "P" -> 80  [] c = "R" -> 82  [] c = "S" -> 83  [] c = "W" -> 87
      [] c = "B" -> 66  [] c = "D" -> 68  [] c = "F" -> 70
      [] OTHER -> CHOOSE n \in 0..255 : ByteName(n) = c

\* The characters a sentence is built from.
Alphabet == {"$", "*", ",", ".", "0", "1", "2", "3", "4", "5", "6", "7", "8", "9",
             "A", "B", "C", "D", "E", "F", "G", "M", "N", "P", "R", "S", "W"}

\* The char of byte value n.
Chr(n) ==
    IF \E c \in Alphabet : Ord(c) = n
    THEN CHOOSE c \in Alphabet : Ord(c) = n
    ELSE ByteName(n)

HexDigits == <<"0", "1", "2", "3", "4", "5", "6", "7", "8", "9",
               "A", "B", "C", "D", "E", "F">>

\* Bit k of the byte a.
Bit(a, k) == (a \div (2 ^ k)) % 2

\* a ^ b on bytes: bit by bit, the sum of the two bits modulo 2.
BitXor(a, b) ==
    ((Bit(a, 0) + Bit(b, 0)) % 2)
        + 2 * ((Bit(a, 1) + Bit(b, 1)) % 2)
        + 4 * ((Bit(a, 2) + Bit(b, 2)) % 2)
        + 8 * ((Bit(a, 3) + Bit(b, 3)) % 2)
        + 16 * ((Bit(a, 4) + Bit(b, 4)) % 2)
        + 32 * ((Bit(a, 5) + Bit(b, 5)) % 2)
        + 64 * ((Bit(a, 6) + Bit(b, 6)) % 2)
        + 128 * ((Bit(a, 7) + Bit(b, 7)) % 2)

\* The digits of n >= 0 in the given base, without leading zeros.
RECURSIVE Digits(_, _)
Digits(n, base) ==
    IF n < base THEN <<HexDigits[n + 1]>>
    ELSE Digits(n \div base, base) \o <<HexDigits[(n % base) + 1]>>

\* std::setw(w) << std::setfill(c): pads on the left, never truncates.
RECURSIVE setw(_, _, _)
setw(w, c, str) ==
    IF Len(str) >= w THEN str ELSE setw(w, c, <<c>> \o str)

\* std::to_string(int), for the non-negative values the encoder passes.
to_string_int(n) == Digits(n, 10)

\* std::to_string(double), "%f": six decimals.  The value is held in
\* millionths, which is exact for every value the encoder passes.
to_string_double(millionths) ==
    Digits(millionths \div PRECISION_FACTOR, 10) \o <<".">>
        \o setw(6, "0", Digits(millionths % PRECISION_FACTOR, 10))

\* getFormattedTime: HHMMSS.00
getFormattedTime(timeStruct) ==
    setw(2, "0", Digits(timeStruct.tm_hour, 10))
        \o setw(2, "0", Digits(timeStruct.tm_min, 10))
        \o setw(2, "0", Digits(timeStruct.tm_sec, 10))
        \o <<".", "0", "0">>

\* getFormattedDate: DDMMYY
getFormattedDate(timeStruct) ==
    setw(2, "0", Digits(timeStruct.tm_mday, 10))
        \o setw(2, "0", Digits(timeStruct.tm_mon + 1, 10))
        \o setw(2, "0", Digits(timeStruct.tm_year % 100, 10))

\* What the loop of calculateChecksum folds into the unsigned char checksum
\* over the 1-based positions lo..hi of sentence.  XOR on bytes is associative,
\* so the run over lo..hi is the XOR of the runs over its two halves; the
\* halving keeps the evaluation shallow.
RECURSIVE XorRange(_, _, _)
XorRange(sentence, lo, hi) ==
    IF lo > hi THEN 0
    ELSE IF lo = hi THEN Ord(sentence[lo]) % 256
    ELSE LET mid == (lo + hi) \div 2
         IN  BitXor(XorRange(sentence, lo, mid), XorRange(sentence, mid + 1, hi))

\* A checksum that folds the leading '$' in as well.
calculateChecksum_with_dollar(sentence) ==
    setw(2, "0", Digits(XorRange(sentence, 1, Len(sentence)), 16))

\* A checksum that keeps only the low seven bits of the fold.
calculateChecksum_seven_bits(sentence) ==
    setw(2, "0", Digits(XorRange(sentence, 2, Len(sentence)) % 128, 16))

\* A checksum printed without std::setw(2).
calculateChecksum_unpadded(sentence) ==
    Digits(XorRange(sentence, 2, Len(sentence)), 16)

\* calculateChecksum: XOR of sentence[1..length-1] (0-based: the '$' at 0 is
\* skipped), printed as uppercase hex of width 2, filled with '0'.
calculateChecksum(sentence) ==
    setw(2, "0", Digits(XorRange(sentence, 2, Len(sentence)), 16))

\* An encoder that leaves the leading '$' out.
SentenceBody_no_dollar(now, r) ==
    LET utc == getFormattedTime(now)
        date == getFormattedDate(now)
        latVal == (r.latDeg % LATITUDE_DEGREE_MAX) * PRECISION_FACTOR
                      + (r.latFrac % PRECISION_FACTOR)
        longVal == (r.lonDeg % LONGITUDE_DEGREE_MAX) * PRECISION_FACTOR
                       + (r.lonFrac % PRECISION_FACTOR)
        latDegrees == latVal \div PRECISION_FACTOR
        latMinutes == (latVal - latDegrees * PRECISION_FACTOR) * MINUTES_IN_DEGREE
        longDegrees == longVal \div PRECISION_FACTOR
        longMinutes == (longVal - longDegrees * PRECISION_FACTOR) * MINUTES_IN_DEGREE
        latDirection == IF r.latDir % 2 = 0 THEN "N" ELSE "S"
        lonDirection == IF r.lonDir % 2 = 0 THEN "E" ELSE "W"
        varDirection == IF r.varDir % 2 = 0 THEN "E" ELSE "W"
    IN  <<"G", "P", "R", "M", "C", ",">>
            \o utc \o <<",">>
            \o <<"A", ",">>
            \o to_string_int(latDegrees) \o to_string_double(latMinutes)
            \o <<",", latDirection, ",">>
            \o to_string_int(longDegrees) \o to_string_double(longMinutes)
            \o <<",", lonDirection, ",">>
            \o <<"0", ".", "0", ",", "0", ".", "0", ",">>
            \o date \o <<",">>
            \o <<"0", ".", "0", ",">>
            \o <<varDirection>>
            \o <<",", "A">>

\* An encoder that leaves the mode indicator out.
SentenceBody_no_mode(now, r) ==
    LET utc == getFormattedTime(now)
        date == getFormattedDate(now)
        latVal == (r.latDeg % LATITUDE_DEGREE_MAX) * PRECISION_FACTOR
                      + (r.latFrac % PRECISION_FACTOR)
        longVal == (r.lonDeg % LONGITUDE_DEGREE_MAX) * PRECISION_FACTOR
                       + (r.lonFrac % PRECISION_FACTOR)
        latDegrees == latVal \div PRECISION_FACTOR
        latMinutes == (latVal - latDegrees * PRECISION_FACTOR) * MINUTES_IN_DEGREE
        longDegrees == longVal \div PRECISION_FACTOR
        longMinutes == (longVal - longDegrees * PRECISION_FACTOR) * MINUTES_IN_DEGREE
        latDirection == IF r.latDir % 2 = 0 THEN "N" ELSE "S"
        lonDirection == IF r.lonDir % 2 = 0 THEN "E" ELSE "W"
        varDirection == IF r.varDir % 2 = 0 THEN "E" ELSE "W"
    IN  <<"$", "G", "P", "R", "M", "C", ",">>
            \o utc \o <<",">>
            \o <<"A", ",">>
            \o to_string_int(latDegrees) \o to_string_double(latMinutes)
            \o <<",", latDirection, ",">>
            \o to_string_int(longDegrees) \o to_string_double(longMinutes)
            \o <<",", lonDirection, ",">>
            \o <<"0", ".", "0", ",", "0", ".", "0", ",">>
            \o date \o <<",">>
            \o <<"0", ".", "0", ",">>
            \o <<varDirection>>

\* A sentence with the date where the time belongs and the time where the
\* date belongs.
SentenceBody_date_first(now, r) ==
    LET utc == getFormattedTime(now)
        date == getFormattedDate(now)
        latVal == (r.latDeg % LATITUDE_DEGREE_MAX) * PRECISION_FACTOR
                      + (r.latFrac % PRECISION_FACTOR)
        longVal == (r.lonDeg % LONGITUDE_DEGREE_MAX) * PRECISION_FACTOR
                       + (r.lonFrac % PRECISION_FACTOR)
        latDegrees == latVal \div PRECISION_FACTOR
        latMinutes == (latVal - latDegrees * PRECISION_FACTOR) * MINUTES_IN_DEGREE
        longDegrees == longVal \div PRECISION_FACTOR
        longMinutes == (longVal - longDegrees * PRECISION_FACTOR) * MINUTES_IN_DEGREE
        latDirection == IF r.latDir % 2 = 0 THEN "N" ELSE "S"
        lonDirection == IF r.lonDir % 2 = 0 THEN "E" ELSE "W"
        varDirection == IF r.varDir % 2 = 0 THEN "E" ELSE "W"
    IN  <<"$", "G", "P", "R", "M", "C", ",">>
            \o date \o <<",">>
            \o <<"A", ",">>
            \o to_string_int(latDegrees) \o to_string_double(latMinutes)
            \o <<",", latDirection, ",">>
            \o to_string_int(longDegrees) \o to_string_double(longMinutes)
            \o <<",", lonDirection, ",">>
            \o <<"0", ".", "0", ",", "0", ".", "0", ",">>
            \o utc \o <<",">>
            \o <<"0", ".", "0", ",">>
            \o <<varDirection>>
            \o <<",", "A">>

\* The part of generateGNSSData before the checksum is appended.
SentenceBody(now, r) ==
    LET utc == getFormattedTime(now)
        date == getFormattedDate(now)
        latVal == (r.latDeg % LATITUDE_DEGREE_MAX) * PRECISION_FACTOR
                      + (r.latFrac % PRECISION_FACTOR)
        longVal == (r.lonDeg % LONGITUDE_DEGREE_MAX) * PRECISION_FACTOR
                       + (r.lonFrac % PRECISION_FACTOR)
        latDegrees == latVal \div PRECISION_FACTOR
        latMinutes == (latVal - latDegrees * PRECISION_FACTOR) * MINUTES_IN_DEGREE
        longDegrees == longVal \div PRECISION_FACTOR
        longMinutes == (longVal - longDegrees * PRECISION_FACTOR) * MINUTES_IN_DEGREE
        latDirection == IF r.latDir % 2 = 0 THEN "N" ELSE "S"
        lonDirection == IF r.lonDir % 2 = 0 THEN "E" ELSE "W"
        varDirection == IF r.varDir % 2 = 0 THEN "E" ELSE "W"
    IN  <<"$", "G", "P", "R", "M", "C", ",">>
            \o utc \o <<",">>
            \o <<"A", ",">>
            \o to_string_int(latDegrees) \o to_string_double(latMinutes)
            \o <<",", latDirection, ",">>
            \o to_string_int(longDegrees) \o to_string_double(longMinutes)
            \o <<",", lonDirection, ",">>
            \o <<"0", ".", "0", ",", "0", ".", "0", ",">>
            \o date \o <<",">>
            \o <<"0", ".", "0", ",">>
            \o <<varDirection>>
            \o <<",", "A">>

\* A position whose latitude degrees are reduced modulo the longitude maximum.
Position_lat_as_long(r) ==
    LET latVal == (r.latDeg % LONGITUDE_DEGREE_MAX) * PRECISION_FACTOR
                      + (r.latFrac % PRECISION_FACTOR)
        longVal == (r.lonDeg % LONGITUDE_DEGREE_MAX) * PRECISION_FACTOR
                       + (r.lonFrac % PRECISION_FACTOR)
        latDegrees == latVal \div PRECISION_FACTOR
        longDegrees == longVal \div PRECISION_FACTOR
    IN  [latDegrees |-> latDegrees,
         latMinutes |-> (latVal - latDegrees * PRECISION_FACTOR) * MINUTES_IN_DEGREE,
         longDegrees |-> longDegrees,
         longMinutes |-> (longVal - longDegrees * PRECISION_FACTOR) * MINUTES_IN_DEGREE]

\* The degrees and minutes generateGNSSData derives from the first four
\* rand() calls; the minutes are held in millionths.
Position(r) ==
    LET latVal == (r.latDeg % LATITUDE_DEGREE_MAX) * PRECISION_FACTOR
                      + (r.latFrac % PRECISION_FACTOR)
        longVal == (r.lonDeg % LONGITUDE_DEGREE_MAX) * PRECISION_FACTOR
                       + (r.lonFrac % PRECISION_FACTOR)
        latDegrees == latVal \div PRECISION_FACTOR
        longDegrees == longVal \div PRECISION_FACTOR
    IN  [latDegrees |-> latDegrees,
         latMinutes |-> (latVal - latDegrees * PRECISION_FACTOR) * MINUTES_IN_DEGREE,
         longDegrees |-> longDegrees,
         longMinutes |-> (longVal - longDegrees * PRECISION_FACTOR) * MINUTES_IN_DEGREE]

\* generateGNSSData, given what std::time/std::gmtime and the seven rand()
\* calls return.
generateGNSSData(now, r) ==
    LET nmea == SentenceBody(now, r)
    IN  nmea \o <<"*">> \o calculateChecksum(nmea)

\* Values std::gmtime(std::time(0)) may hold.
Clocks ==
    { [tm_hour |-> 10, tm_min |-> 45, tm_sec |-> 12, tm_mday |-> 1, tm_mon |-> 9, tm_year |-> 124],
      [tm_hour |-> 0, tm_min |-> 0, tm_sec |-> 0, tm_mday |-> 9, tm_mon |-> 0, tm_year |-> 100],
      [tm_hour |-> 23, tm_min |-> 59, tm_sec |-> 60, tm_mday |-> 31, tm_mon |-> 11, tm_year |-> 199] }

\* Values one rand() call may return.
RandSamples == {0, 179, 999999}

\* The seven rand() calls of one generateGNSSData.
RandDraws ==
    [latDeg : RandSamples, latFrac : RandSamples, lonDeg : RandSamples,
     lonFrac : RandSamples, latDir : RandSamples, lonDir : RandSamples,
     varDir : RandSamples]

\* The draws the sender model takes: one value for the four coordinate draws,
\* one for the three direction draws.
SenderDraws ==
    { [latDeg |-> v, latFrac |-> v, lonDeg |-> v, lonFrac |-> v,
       latDir |-> d, lonDir |-> d, varDir |-> d] : v \in RandSamples, d \in RandSamples }

NoFix == [now |-> "none", r |-> "none"]

(***************************************************************************)
(* The codec round trip: the sender's encoder, then the receiver's         *)
(* validator on what it produced.                                          *)
(***************************************************************************)
codec_generateGNSSData ==
    /\ cpc = "idle"
    /\ \E now \in Clocks, r \in RandDraws :
          /\ fix' = [now |-> now, r |-> r]
          /\ nmeaData' = generateGNSSData(now, r)
    /\ cpc' = "encoded"
    /\ UNCHANGED <<accepted, wvars, rvars, svars>>

codec_validateNMEAFormat ==
    /\ cpc = "encoded"
    /\ accepted' = validateNMEAFormat(nmeaData)
    /\ cpc' = "validated"
    /\ UNCHANGED <<fix, nmeaData, wvars, rvars, svars>>

\* A call that builds the sentence from a second reading of the clock.
twice_generateGNSSData_other_clock ==
    /\ cpc \in {"idle", "once"}
    /\ \E now \in Clocks, later \in Clocks, r \in SenderDraws :
          /\ fix' = [now |-> now, r |-> r]
          /\ nmeaData' = generateGNSSData(later, r)
    /\ prevFix' = fix
    /\ prevData' = nmeaData
    /\ cpc' = IF cpc = "idle" THEN "once" ELSE "twice"
    /\ UNCHANGED <<accepted, received, tamper, verified, rvars, svars>>

\* One call of generateGNSSData, the second after the first: the call reads
\* the clock and draws its random values itself.
twice_generateGNSSData ==
    /\ cpc \in {"idle", "once"}
    /\ \E now \in Clocks, r \in SenderDraws :
          /\ fix' = [now |-> now, r |-> r]
          /\ nmeaData' = generateGNSSData(now, r)
    /\ prevFix' = fix
    /\ prevData' = nmeaData
    /\ cpc' = IF cpc = "idle" THEN "once" ELSE "twice"
    /\ UNCHANGED <<accepted, received, tamper, verified, rvars, svars>>

\* A hexadecimal digit in upper case, any other character as it is.
Upper(c) ==
    CASE c = "a" -> "A"  [] c = "b" -> "B"  [] c = "c" -> "C"
      [] c = "d" -> "D"  [] c = "e" -> "E"  [] c = "f" -> "F"
      [] OTHER -> c

\* Checksum verification: the checksum of what stands between '$' and the
\* '*' before the two trailing digits is computed again with
\* calculateChecksum and compared with those digits, whatever their case;
\* false when that '*' is absent.
Verify(sentence) ==
    LET n == Len(sentence)
    IN  /\ n >= 3
        /\ sentence[n - 2] = "*"
        /\ <<Upper(sentence[n - 1]), Upper(sentence[n])>>
              = calculateChecksum(SubSeq(sentence, 1, n - 3))

\* A sentence is built and sent.
tamper_generateGNSSData ==
    /\ cpc = "idle"
    /\ \E now \in Clocks, r \in SenderDraws :
          /\ fix' = [now |-> now, r |-> r]
          /\ nmeaData' = generateGNSSData(now, r)
    /\ received' = nmeaData'
    /\ cpc' = "sent"
    /\ UNCHANGED <<accepted, prevFix, prevData, tamper, verified, rvars, svars>>

\* One bit of one byte between '$' and '*' is flipped on the way.
tamper_flip_bit ==
    /\ cpc = "sent"
    /\ \E k \in 2..(Len(nmeaData) - 3), bit \in 0..7 :
          /\ received' = [nmeaData EXCEPT ![k] = Chr(BitXor(Ord(@), 2 ^ bit))]
          /\ tamper' = <<k, bit>>
    /\ cpc' = "flipped"
    /\ UNCHANGED <<fix, nmeaData, accepted, prevFix, prevData, verified, rvars, svars>>

\* The sentence that arrived is verified.
tamper_verify ==
    /\ cpc \in {"sent", "flipped"}
    /\ verified' = Verify(received)
    /\ cpc' = "verified"
    /\ UNCHANGED <<fix, nmeaData, accepted, prevFix, prevData, received, tamper, rvars, svars>>

\* What may follow the first byte of an input of calculateChecksum: nothing,
\* or one more byte.
SecondBytes == {<<>>, <<Chr(0)>>, <<Chr(128)>>, <<Chr(255)>>}

\* calculateChecksum applied to '$' followed by any byte, and possibly a
\* second one.
hex_calculateChecksum ==
    /\ cpc = "idle"
    /\ \E n \in 0..255, more \in SecondBytes :
          /\ received' = <<"$", Chr(n)>> \o more
          /\ nmeaData' = calculateChecksum(received')
    /\ cpc' = "summed"
    /\ UNCHANGED <<fix, accepted, prevFix, prevData, tamper, verified, rvars, svars>>

CodecInit ==
    /\ cpc = "idle"
    /\ fix = NoFix
    /\ nmeaData = <<>>
    /\ accepted = FALSE
    /\ prevFix = NoFix
    /\ prevData = <<>>
    /\ received = <<>>
    /\ tamper = <<>>
    /\ verified = FALSE


(***************************************************************************)
(* The sender: main() of gnss_sender.cpp.                                  *)
(***************************************************************************)
\* The number of iterations of the for loop in main.
PUBLISH_CYCLES == 5

\* mosquitto_new: NULL makes main return 1.
sender_mosquitto_new ==
    /\ spc = "new"
    /\ \E ok \in BOOLEAN :
          IF ok THEN spc' = "connect" /\ UNCHANGED sExit
          ELSE spc' = "failed" /\ sExit' = "1"
    /\ UNCHANGED <<i, gnssData, published, pubFailed, rvars, cvars>>

\* mosquitto_connect: a non-zero result makes main return 1.
sender_mosquitto_connect ==
    /\ spc = "connect"
    /\ \E ok \in BOOLEAN :
          IF ok THEN spc' = "for" /\ UNCHANGED sExit
          ELSE spc' = "failed" /\ sExit' = "1"
    /\ UNCHANGED <<i, gnssData, published, pubFailed, rvars, cvars>>

\* A for loop that runs once more: i <= 5.
sender_for_six ==
    /\ spc = "for"
    /\ spc' = IF i <= PUBLISH_CYCLES THEN "handler" ELSE "cleanup"
    /\ UNCHANGED <<i, gnssData, published, pubFailed, sExit, rvars, cvars>>

\* for (int i = 0; i < 5; ...)
sender_for ==
    /\ spc = "for"
    /\ spc' = IF i < PUBLISH_CYCLES THEN "handler" ELSE "cleanup"
    /\ UNCHANGED <<i, gnssData, published, pubFailed, sExit, rvars, cvars>>

\* A gnssDataHandler whose failed publish ends the program with status 1.
gnssDataHandler_fatal ==
    /\ spc = "handler"
    /\ \E now \in Clocks, r \in SenderDraws : gnssData' = generateGNSSData(now, r)
    /\ \E ok \in BOOLEAN :
          IF ok THEN published' = published + 1 /\ spc' = "sleep"
                     /\ UNCHANGED <<pubFailed, sExit>>
          ELSE pubFailed' = pubFailed + 1 /\ spc' = "failed" /\ sExit' = "1"
               /\ UNCHANGED published
    /\ UNCHANGED <<i, rvars, cvars>>

\* gnssDataHandler: generateGNSSData, then one mosquitto_publish whose failure
\* is printed.
gnssDataHandler ==
    /\ spc = "handler"
    /\ \E now \in Clocks, r \in SenderDraws : gnssData' = generateGNSSData(now, r)
    /\ \E ok \in BOOLEAN :
          IF ok THEN published' = published + 1 /\ UNCHANGED pubFailed
          ELSE pubFailed' = pubFailed + 1 /\ UNCHANGED published
    /\ spc' = "sleep"
    /\ UNCHANGED <<i, sExit, rvars, cvars>>

\* sleep_for(2 s); ++i
sender_sleep ==
    /\ spc = "sleep"
    /\ i' = i + 1
    /\ spc' = "for"
    /\ UNCHANGED <<gnssData, published, pubFailed, sExit, rvars, cvars>>

\* mosquitto_destroy, mosquitto_lib_cleanup, return 0.
sender_cleanup ==
    /\ spc = "cleanup"
    /\ spc' = "done"
    /\ sExit' = "0"
    /\ UNCHANGED <<i, gnssData, published, pubFailed, rvars, cvars>>

SenderInit ==
    /\ spc = "new"
    /\ i = 0
    /\ gnssData = <<>>
    /\ published = 0
    /\ pubFailed = 0
    /\ sExit = "none"


(***************************************************************************)
(* Specifications: each program alone, the other two at rest.              *)
(***************************************************************************)
\* The receiver, started on a database file that is new or holds an old row.
Init == ReceiverInit /\ SenderInit /\ CodecInit

Next ==
    \/ main_mosquitto_new
    \/ initDatabase
    \/ main_mosquitto_connect
    \/ main_mosquitto_subscribe
    \/ main_while
    \/ mosquitto_loop_call
    \/ \E payload \in Payloads : on_message(payload)
    \/ mosquitto_loop_return
    \/ main_if_not_empty
    \/ logGNSSData
    \/ main_validate
    \/ storeValidData
    \/ main_clear
    \/ main_cleanup
    \/ handle_signal

Spec == Init /\ [][Next]_vars

\* Every program at its start, the receiver on a new database file.
InitRest == ReceiverInit /\ db = <<>> /\ SenderInit /\ CodecInit

\* The steps main takes by itself once it is in the loop: the thread is
\* scheduled, every call it makes returns, and mosquitto_loop returns (its
\* timeout of -1 stands for 1000 ms). Deliveries and signals come from outside.
MainStep ==
    \/ main_while
    \/ mosquitto_loop_call
    \/ mosquitto_loop_return
    \/ main_if_not_empty
    \/ logGNSSData
    \/ main_validate
    \/ storeValidData
    \/ main_clear
    \/ main_cleanup

\* The receiver with a main thread that keeps running, started on a new
\* database file.
FairSpec == InitRest /\ [][Next]_vars /\ WF_vars(MainStep)

NextCodec ==
    \/ codec_generateGNSSData
    \/ codec_validateNMEAFormat

SpecCodec == InitRest /\ [][NextCodec]_vars

\* Two calls of generateGNSSData in a row.
NextTwice == twice_generateGNSSData

SpecTwice == InitRest /\ [][NextTwice]_vars

\* A sentence is built, sent, possibly damaged in one bit, and verified.
NextTamper ==
    \/ tamper_generateGNSSData
    \/ tamper_flip_bit
    \/ tamper_verify

SpecTamper == InitRest /\ [][NextTamper]_vars

\* One call of calculateChecksum.
NextHex == hex_calculateChecksum

SpecHex == InitRest /\ [][NextHex]_vars

NextSender ==
    \/ sender_mosquitto_new
    \/ sender_mosquitto_connect
    \/ sender_for
    \/ gnssDataHandler
    \/ sender_sleep
    \/ sender_cleanup

SpecSender == InitRest /\ [][NextSender]_vars

(***************************************************************************)
(* Vocabulary of the properties.                                           *)
(***************************************************************************)
\* Whether a string begins with the six characters $GPRMC.
BeginsWithGPRMC(str) ==
    /\ Len(str) >= 6
    /\ SubSeq(str, 1, 6) = <<"$", "G", "P", "R", "M", "C">>

\* The loop has been left.
Halted == pc \in {"cleanup", "done"}

\* The texts of the validateNMEAFormat calls that got a string beginning
\* with $GPRMC, in call order.
PrefixedValidated == SelectSeq(validated, LAMBDA v : BeginsWithGPRMC(v[1]))

PrefixLater == <<"A", "$", "G", "P", "R", "M", "C">>
TooShort == <<"$", "G", "P", "R", "M">>
NoStar == <<"$", "G", "P", "R", "M", "C", ",", "A">>
WrongChecksum == <<"$", "G", "P", "R", "M", "C", ",", "A", "*", "0", "0">>

(***************************************************************************)
(* Properties of the receive loop.                                         *)
(***************************************************************************)
\* C1: once the stop flag is set, at most one more mosquitto_loop call (one
\* more poll-and-process cycle) is begun; the while test that reads the flag
\* unset leaves the loop; and once the loop is left nothing is logged,
\* validated or stored any more.
C1_StopWithinOneCycle ==
    [][ /\ pollsAfterStop' <= 1
        /\ (pc = "while" /\ ~running /\ pc' # pc) => pc' = "cleanup"
        /\ Halted => (Halted' /\ UNCHANGED <<logged, validated, attempts, db>>) ]_vars

\* C1 witness: the flag was set after the while test, one more cycle ran and
\* stored a message, and the receiver has returned.
C1_Witness ==
    /\ pc = "done"
    /\ pollsAfterStop = 1
    /\ Len(attempts) = 1
    /\ Len(logged) = 1

\* C2: a string that does not begin with $GPRMC is never validated as ok and
\* is never the argument of storeValidData.
C2_WrongPrefixRejected ==
    /\ \A k \in 1..Len(validated) :
          ~BeginsWithGPRMC(validated[k][1]) => validated[k][2] = FALSE
    /\ \A k \in 1..Len(attempts) : BeginsWithGPRMC(attempts[k][1])

\* C2 witness: a string shorter than the prefix and a string holding the
\* prefix at a later position were both validated, and nothing was stored.
C2_Witness ==
    /\ pc = "while"
    /\ Len(validated) = 2
    /\ {validated[1][1], validated[2][1]} = {TooShort, PrefixLater}
    /\ attempts = <<>>

\* C6: a delivery leaves exactly its payload in the buffer, and whatever is
\* logged, validated or stored is the payload of the delivery that came last
\* before the loop read the buffer: a delivery overwritten in the same
\* mosquitto_loop call is never processed, and none is processed twice.
C6_LastWriteWins ==
    /\ (pc = "in_poll" /\ inPoll > 0) => receivedMessage = delivered[Len(delivered)]
    /\ \A k \in 1..Len(logged) :
          /\ logged[k][1] \in 1..Len(delivered)
          /\ logged[k][1] \notin superseded
          /\ logged[k][2] = delivered[logged[k][1]]
          /\ \A j \in 1..(k - 1) : logged[j][1] < logged[k][1]
    /\ Len(validated) <= Len(logged)
    /\ \A k \in 1..Len(validated) : validated[k][1] = logged[k][2]
    /\ \A k \in 1..Len(attempts) :
          \E j \in 1..Len(logged) : attempts[k][1] = logged[j][2]

\* C6 witness: two different non-empty payloads came in one mosquitto_loop
\* call, and the loop processed the second one only.
C6_Witness ==
    /\ pc = "while"
    /\ Len(delivered) = 2
    /\ superseded = {1}
    /\ delivered[1] = NoStar
    /\ delivered[2] = WrongChecksum
    /\ logged = <<(<<2, WrongChecksum>>)>>
    /\ Len(attempts) = 1

\* C7, as claimed: whenever storeValidData runs and the store itself can
\* write, exactly one row is appended, its text is the payload character for
\* character, and the rows already there stay as they were.
C7_StoredVerbatim ==
    [][ (pc = "store" /\ pc' = "clear" /\ attempts'[Len(attempts')][3] = FALSE)
            => db' = Append(db, receivedMessage) ]_vars

\* C8: every string beginning with $GPRMC is validated as ok and is handed to
\* storeValidData, in order, whatever follows the prefix.
C8_PrefixIsEnough ==
    /\ \A k \in 1..Len(PrefixedValidated) : PrefixedValidated[k][2] = TRUE
    /\ Len(attempts) = Len(PrefixedValidated) - (IF pc = "store" THEN 1 ELSE 0)
    /\ \A k \in 1..Len(attempts) : attempts[k][1] = PrefixedValidated[k][1]

\* C8 witness: a sentence without '*' and a sentence with a wrong checksum and
\* too few fields were both handed to storeValidData.
C8_Witness ==
    /\ Len(attempts) = 2
    /\ attempts[1][1] = NoStar
    /\ attempts[2][1] = WrongChecksum

\* C9: a storeValidData call, failed or not, is one insert attempt, leaves the
\* stop flag and the buffer alone and goes on to the clear; the clear empties
\* the buffer without another attempt and goes back to the while test; no
\* message is attempted more than once.
C9_FailedInsertDropped ==
    [][ /\ (attempts' # attempts) =>
              /\ pc = "store" /\ pc' = "clear"
              /\ Len(attempts') = Len(attempts) + 1
              /\ UNCHANGED <<running, receivedMessage, exitCode>>
        /\ (pc = "clear" /\ pc' # pc) =>
              /\ pc' = "while"
              /\ receivedMessage' = <<>>
              /\ UNCHANGED <<attempts, db, running, exitCode>>
        /\ Len(attempts') <= Len(logged') ]_vars

\* C9 witness: the first insert failed, its message is gone from the buffer,
\* and a later delivery was polled, processed and stored.
C9_Witness ==
    /\ pc = "while"
    /\ running
    /\ receivedMessage = <<>>
    /\ Len(attempts) = 2
    /\ attempts[1][2] # "SQLITE_OK"
    /\ attempts[2][2] = "SQLITE_OK"
    /\ db # <<>>
    /\ db[Len(db)] = attempts[2][1]

\* C10: the validation of a string that does not begin with $GPRMC goes
\* straight to the clear with the store, the stop flag and the process left
\* as they were, and the clear of a rejected message empties the buffer and
\* goes back to the while test.
C10_RejectedDiscarded ==
    [][ /\ (pc = "validate" /\ ~BeginsWithGPRMC(receivedMessage) /\ pc' # pc) =>
              /\ pc' = "clear"
              /\ isValid' = FALSE
              /\ UNCHANGED <<db, attempts, running, exitCode>>
        /\ (pc = "clear" /\ ~isValid /\ pc' # pc) =>
              /\ pc' = "while"
              /\ receivedMessage' = <<>>
              /\ UNCHANGED <<db, attempts, running, exitCode>> ]_vars

\* C10 witness: a message was rejected, and the valid one delivered after it
\* was processed and stored.
C10_Witness ==
    /\ pc = "while"
    /\ Len(validated) = 2
    /\ validated[1] = <<PrefixLater, FALSE>>
    /\ validated[2] = <<NoStar, TRUE>>
    /\ db # <<>>
    /\ db[Len(db)] = NoStar

(***************************************************************************)
(* Properties of the encoder.                                              *)
(***************************************************************************)
\* The 1-based positions of character c in str.
PositionsOf(str, c) == {k \in 1..Len(str) : str[k] = c}

\* The value of one hexadecimal digit 0-9, A-F; 16 for any other character.
HexValue(c) ==
    IF \E n \in 0..15 : HexDigits[n + 1] = c
    THEN CHOOSE n \in 0..15 : HexDigits[n + 1] = c
    ELSE 16

\* str is "$GPRMC," + n comma-separated fields + "*" + two hex digits.
SentenceShape(str, n) ==
    /\ Len(str) >= 10
    /\ SubSeq(str, 1, 7) = <<"$", "G", "P", "R", "M", "C", ",">>
    /\ PositionsOf(str, "*") = {Len(str) - 2}
    /\ HexValue(str[Len(str) - 1]) < 16
    /\ HexValue(str[Len(str)]) < 16
    /\ Cardinality({k \in PositionsOf(str, ",") : k > 7}) = n - 1

\* C3: every sentence generateGNSSData builds, for every clock value and
\* every draw of degrees, millionths and hemisphere flags, is accepted by the
\* receiver's validateNMEAFormat.
C3_EncodedIsAccepted ==
    cpc = "validated" => accepted = TRUE

\* C3 witness: the fix with the largest degrees and the largest millionths the
\* draws give went through the encoder and the validator.
C3_Witness ==
    /\ cpc = "validated"
    /\ accepted = TRUE
    /\ fix.r.latDeg % LATITUDE_DEGREE_MAX = 89
    /\ fix.r.lonDeg % LONGITUDE_DEGREE_MAX = 179
    /\ fix.r.latFrac % PRECISION_FACTOR = 999999
    /\ fix.r.latDir % 2 = 1

\* C4: a generated sentence starts with '$', holds one '*', and the two
\* characters after the '*' are the hexadecimal value of the XOR of exactly
\* the bytes between the '$' and the '*'.
C4_ChecksumOverBody ==
    cpc # "idle" =>
        LET star == Len(nmeaData) - 2
        IN  /\ nmeaData[1] = "$"
            /\ PositionsOf(nmeaData, "*") = {star}
            /\ 16 * HexValue(nmeaData[star + 1]) + HexValue(nmeaData[star + 2])
                   = XorRange(nmeaData, 2, star - 1)

\* C4 witness: a generated sentence whose checksum is below 16, so that its
\* first hex digit is the fill character.
C4_Witness ==
    /\ cpc = "encoded"
    /\ nmeaData[Len(nmeaData) - 1] = "0"
    /\ nmeaData[Len(nmeaData)] # "0"

\* C5, as claimed: a generated sentence is "$GPRMC," followed by exactly 11
\* comma-separated fields, then '*', then two hex digits.
C5_ElevenFields ==
    cpc # "idle" => SentenceShape(nmeaData, 11)

\* C5, amended: a generated sentence is "$GPRMC," followed by exactly 12
\* comma-separated fields (11 commas between them), then '*', then two hex
\* digits.
C5_TwelveFields ==
    cpc # "idle" => SentenceShape(nmeaData, 12)

\* C5 witness: a sentence generated at 23:59:60 on 31 December, southern and
\* western hemispheres.
C5_Witness ==
    /\ cpc = "encoded"
    /\ fix.now.tm_sec = 60
    /\ fix.r.latDir % 2 = 1
    /\ fix.r.lonDir % 2 = 1
    /\ SentenceShape(nmeaData, 12)

(***************************************************************************)
(* Setup of the receiver.                                                  *)
(***************************************************************************)

\* main is inside the receive loop.
InLoop == pc \in {"while", "poll", "in_poll", "test", "log", "validate", "store", "clear"}

\* C11: every setup failure of the receiver is fatal: a failed step ends
\* main with a non-zero status, and the loop is entered (and main returns 0)
\* only when every setup step succeeded, the creation of the table
\* included.
C11_SetupFailureFatal ==
    /\ pc = "failed" => exitCode = "-1"
    /\ (InLoop \/ Halted) => schemaOk
    /\ exitCode = "0" => schemaOk


(***************************************************************************)
(* The sender's cycles.                                                    *)
(***************************************************************************)

\* The mosquitto_publish calls made so far, whatever they returned.
PublishCalls == published + pubFailed

C13_PublishFailureNonFatal ==
    [][ /\ pubFailed' # pubFailed =>
              /\ pubFailed' = pubFailed + 1
              /\ spc' = "sleep"
              /\ i' = i
              /\ sExit' = "none"
        /\ PublishCalls' = i' + (IF spc' = "sleep" THEN 1 ELSE 0)
        /\ spc' \in {"cleanup", "done"} => i' = 5 /\ PublishCalls' = 5 ]_vars

\* Two publishes failed, the other three cycles were still made.
C13_Witness ==
    /\ spc = "done"
    /\ pubFailed = 2
    /\ published = 3


(***************************************************************************)
(* Stopping the receiver.                                                  *)
(***************************************************************************)

\* C14: once a signal has cleared running while main is in the loop, main
\* eventually returns 0, given that every mosquitto_loop call returns; and
\* the request never cuts a mosquitto_loop call short: from inside the call
\* main only goes on to the test of the buffer, and the loop is left only
\* from the test of running.
C14_StopLeadsToExit ==
    /\ (InLoop /\ ~running) ~> (pc = "done" /\ exitCode = "0")
    /\ [][ /\ pc = "in_poll" => pc' \in {"in_poll", "test"}
           /\ (~Halted /\ Halted') => (pc = "while" /\ ~running) ]_vars

\* The signal arrived in the middle of a mosquitto_loop call that is still
\* in progress.
C14_Witness ==
    /\ pc = "in_poll"
    /\ ~running
    /\ stopAt = "in_poll"
    /\ pollsAfterStop = 0


(***************************************************************************)
(* What a sentence depends on.                                             *)
(***************************************************************************)

ReceivedFold == XorRange(received, 2, Len(received) - 3)

\* The number the two trailing digits of received denote in hexadecimal.
ReceivedSuffix ==
    16 * HexValue(received[Len(received) - 1]) + HexValue(received[Len(received)])

\* C16: verification accepts a sentence exactly when its two trailing hex
\* digits denote the XOR-fold of the bytes between '$' and '*'; a sentence
\* as generateGNSSData built it is accepted, and the same sentence with one
\* bit of one byte between '$' and '*' flipped is rejected.
C16_TamperDetected ==
    cpc = "verified" =>
        /\ verified <=> (received[Len(received) - 2] = "*" /\ ReceivedSuffix = ReceivedFold)
        /\ tamper = <<>> => verified
        /\ tamper # <<>> => ~verified /\ ReceivedSuffix # ReceivedFold

\* The top bit of a byte was flipped and verification has rejected the
\* sentence.
C16_Witness ==
    /\ cpc = "verified"
    /\ tamper # <<>>
    /\ tamper[2] = 7
    /\ received # nmeaData
    /\ ~verified


(***************************************************************************)
(* The buffer between two polls.                                           *)
(***************************************************************************)

\* main is between the return of mosquitto_loop and the clear of the buffer.
Processing == pc \in {"test", "log", "validate", "store", "clear"}

\* The deliveries that were passed to logGNSSData.
LoggedDeliveries == {logged[l][1] : l \in 1..Len(logged)}

\* C17: on_message touches the buffer only inside a mosquitto_loop call:
\* between the return of the call and the clear, the buffer keeps the text
\* the loop read and no delivery is made, the clear erases the very text
\* that was logged, and so after the clear every non-empty delivery that was
\* not overwritten inside its own call has been logged.
C17_DeliveryOnlyInPoll ==
    [][ /\ delivered' # delivered => (pc = "in_poll" /\ pc' = "in_poll")
        /\ Processing =>
              /\ delivered' = delivered
              /\ \/ receivedMessage' = receivedMessage
                 \/ pc = "clear" /\ pc' = "while" /\ receivedMessage' = <<>>
        /\ pc' = "clear" =>
              /\ logged' # <<>>
              /\ logged'[Len(logged')] = <<Len(delivered'), receivedMessage'>>
        /\ pc' \in {"while", "poll", "cleanup", "done"} =>
              \A k \in 1..Len(delivered') :
                  (k \notin superseded' /\ delivered'[k] # <<>>) => k \in LoggedDeliveries' ]_vars

\* A sentence that overwrote another one inside the call is being stored.
C17_Witness ==
    /\ pc = "store"
    /\ inPoll = 2
    /\ Len(delivered) = 2
    /\ receivedMessage = delivered[2]


(***************************************************************************)
(* The order of the stored rows.                                           *)
(***************************************************************************)

\* The rows this run has appended to GNSS_DATA.
StoredRows == IF db # <<>> /\ db[1] = OldRow THEN Tail(db) ELSE db

\* a is b with some of its elements left out.
RECURSIVE IsSubsequence(_, _)
IsSubsequence(a, b) ==
    IF a = <<>> THEN TRUE
    ELSE IF b = <<>> THEN FALSE
    ELSE IF Head(a) = Head(b) THEN IsSubsequence(Tail(a), Tail(b))
    ELSE IsSubsequence(a, Tail(b))

\* C18: the rows stored by this run are, in their order, a subsequence of
\* the payloads the transport delivered.
C18_StoredInDeliveryOrder ==
    IsSubsequence(StoredRows, delivered)


(***************************************************************************)
(* Leaving the loop.                                                       *)
(***************************************************************************)

\* C19: the loop is left only when a signal has cleared running: while
\* running is set every step of main stays in the loop, whatever was
\* delivered, rejected, failed to be stored or returned by mosquitto_loop;
\* running is cleared by a signal only, and main has left the loop only with
\* running cleared.
C19_StopsOnlyOnSignal ==
    [][ /\ (InLoop /\ running) => InLoop'
        /\ running' # running => (running /\ pc' = pc /\ stopAt' = pc)
        /\ ~running' <=> stopAt' # "none"
        /\ Halted' => ~running' ]_vars

\* The loop has gone on after a rejected message and after a failed insert,
\* and was left after a signal.
C19_Witness ==
    /\ pc = "done"
    /\ ~running
    /\ \E v \in 1..Len(validated) : ~validated[v][2]
    /\ \E a \in 1..Len(attempts) : attempts[a][2] # "SQLITE_OK"

\* The texts of a sequence of records, the text being field 1 or 2.
Texts(records, field) == [r \in 1..Len(records) |-> records[r][field]]

\* C20: the message in the buffer when the stop flag is set is completed
\* before the loop is left: from the test of the buffer to the clear, main
\* goes through log, validate, store when valid, and clear without reading
\* running, and each time running is read, and when the loop has been left,
\* the buffer is empty and every delivery found in the buffer after a
\* mosquitto_loop call has been logged, validated, and handed to
\* storeValidData when it begins with $GPRMC.
C20_InFlightCompleted ==
    [][ /\ (Processing /\ pc' # pc) =>
              pc' = CASE pc = "test" -> IF receivedMessage # <<>> THEN "log" ELSE "while"
                      [] pc = "log" -> "validate"
                      [] pc = "validate" ->
                            IF BeginsWithGPRMC(receivedMessage) THEN "store" ELSE "clear"
                      [] pc = "store" -> "clear"
                      [] pc = "clear" -> "while"
        /\ (pc' = "while" \/ Halted') =>
              /\ receivedMessage' = <<>>
              /\ \A k \in 1..Len(delivered') :
                    (k \notin superseded' /\ delivered'[k] # <<>>) => k \in LoggedDeliveries'
              /\ Texts(validated', 1) = Texts(logged', 2)
              /\ Texts(attempts', 1) = Texts(PrefixedValidated', 1) ]_vars

\* The signal arrived while a sentence waited in the buffer after the call
\* had returned; the sentence was logged and stored and the loop then left
\* without another call.
C20_Witness ==
    /\ pc = "cleanup"
    /\ stopAt = "log"
    /\ pollsAfterStop = 0
    /\ Len(logged) = 1
    /\ Len(attempts) = 1
    /\ StoredRows = <<delivered[Len(delivered)]>>


(***************************************************************************)
(* The fields of a sentence.                                               *)
(***************************************************************************)

\* The positions of the commas and of the '*' of str.
Separators(str) == PositionsOf(str, ",") \cup PositionsOf(str, "*")

\* The position of the n-th separator of str.
Separator(str, n) ==
    CHOOSE k \in Separators(str) : Cardinality({j \in Separators(str) : j < k}) = n - 1

\* The n-th field of str: what stands between the n-th separator and the next.
Field(str, n) == SubSeq(str, Separator(str, n) + 1, Separator(str, n + 1) - 1)

\* n in 0..99 as two decimal digits.
TwoDigits(n) == <<HexDigits[(n \div 10) + 1], HexDigits[(n % 10) + 1]>>

DecimalDigits == {"0", "1", "2", "3", "4", "5", "6", "7", "8", "9"}

\* str is digits, a '.', and six digits.
IsCoordinate(str) ==
    /\ Len(str) >= 8
    /\ str[Len(str) - 6] = "."
    /\ \A k \in 1..Len(str) : k # Len(str) - 6 => str[k] \in DecimalDigits

ZeroPointZero == <<"0", ".", "0">>

\* C21: the fields of every sentence come in the order time, status,
\* latitude, its hemisphere, longitude, its hemisphere, speed, course, date,
\* variation, its direction, mode: the time and the date are those of the
\* clock value read, status and mode are A, speed, course and variation are
\* 0.0, the latitude hemisphere is N or S and the two other directions E or
\* W, as the three draws decide.
C21_FieldOrder ==
    cpc # "idle" =>
        /\ Cardinality(Separators(nmeaData)) = 13
        /\ Field(nmeaData, 1) = TwoDigits(fix.now.tm_hour) \o TwoDigits(fix.now.tm_min)
                                   \o TwoDigits(fix.now.tm_sec) \o <<".", "0", "0">>
        /\ Field(nmeaData, 2) = <<"A">>
        /\ IsCoordinate(Field(nmeaData, 3))
        /\ Field(nmeaData, 4) = <<IF fix.r.latDir % 2 = 0 THEN "N" ELSE "S">>
        /\ IsCoordinate(Field(nmeaData, 5))
        /\ Field(nmeaData, 6) = <<IF fix.r.lonDir % 2 = 0 THEN "E" ELSE "W">>
        /\ Field(nmeaData, 7) = ZeroPointZero
        /\ Field(nmeaData, 8) = ZeroPointZero
        /\ Field(nmeaData, 9) = TwoDigits(fix.now.tm_mday) \o TwoDigits(fix.now.tm_mon + 1)
                                   \o TwoDigits(fix.now.tm_year % 100)
        /\ Field(nmeaData, 10) = ZeroPointZero
        /\ Field(nmeaData, 11) = <<IF fix.r.varDir % 2 = 0 THEN "E" ELSE "W">>
        /\ Field(nmeaData, 12) = <<"A">>

\* A sentence with latitude S, longitude E and variation W.
C21_Witness ==
    /\ cpc = "encoded"
    /\ Field(nmeaData, 4) = <<"S">>
    /\ Field(nmeaData, 6) = <<"E">>
    /\ Field(nmeaData, 11) = <<"W">>
    /\ Field(nmeaData, 2) = <<"A">>


(***************************************************************************)
(* The ranges of a position.                                               *)
(***************************************************************************)

\* C22: for every draw of degrees and millionths, the latitude degrees are
\* in [0,90), the longitude degrees in [0,180) and both minutes in [0,60);
\* these are the degrees and minutes the sentence carries in its latitude
\* and longitude fields.
C22_RangeInvariant ==
    cpc # "idle" =>
        LET p == Position(fix.r)
        IN  /\ 0 <= p.latDegrees /\ p.latDegrees < 90
            /\ 0 <= p.longDegrees /\ p.longDegrees < 180
            /\ 0 <= p.latMinutes /\ p.latMinutes < 60 * 1000000
            /\ 0 <= p.longMinutes /\ p.longMinutes < 60 * 1000000
            /\ Field(nmeaData, 3) = to_string_int(p.latDegrees) \o to_string_double(p.latMinutes)
            /\ Field(nmeaData, 5) = to_string_int(p.longDegrees) \o to_string_double(p.longMinutes)

\* The largest position: 89 degrees 59.999940 minutes, 179 degrees 59.999940
\* minutes.
C22_Witness ==
    /\ cpc = "encoded"
    /\ Position(fix.r) = [latDegrees |-> 89, latMinutes |-> 59999940,
                          longDegrees |-> 179, longMinutes |-> 59999940]
    /\ Field(nmeaData, 3) = <<"8", "9", "5", "9", ".", "9", "9", "9", "9", "4", "0">>


(***************************************************************************)
(* The rendering of the checksum.                                          *)
(***************************************************************************)

\* The XOR of the one or two bytes that follow '$' in received, by
\* arithmetic: the second byte, when there is one, is 0, 128 or 255.
ExpectedFold ==
    LET n == Ord(received[2])
    IN  IF Len(received) = 2 THEN n
        ELSE CASE Ord(received[3]) = 0 -> n
               [] Ord(received[3]) = 128 -> (n + 128) % 256
               [] Ord(received[3]) = 255 -> 255 - n

\* C23: for every byte value 0..255 of the fold, calculateChecksum returns
\* exactly two characters out of 0-9 and A-F, padded with '0' below 16,
\* that denote the fold; the fold of bytes with the top bit set stays in
\* 0..255.
C23_TwoHexDigits ==
    cpc = "summed" =>
        /\ Len(nmeaData) = 2
        /\ HexValue(nmeaData[1]) < 16
        /\ HexValue(nmeaData[2]) < 16
        /\ 16 * HexValue(nmeaData[1]) + HexValue(nmeaData[2]) = ExpectedFold
        /\ ExpectedFold \in 0..255
        /\ ExpectedFold < 16 => nmeaData[1] = "0"

\* The fold 10 is rendered 0A, from the bytes 138 and 128.
C23_Witness ==
    /\ cpc = "summed"
    /\ Len(received) = 3
    /\ Ord(received[2]) = 138
    /\ Ord(received[3]) = 128
    /\ nmeaData = <<"0", "A">>


(***************************************************************************)
(* The buffer at the test of the stop flag.                                *)
(***************************************************************************)

\* The mosquitto_loop calls that have returned after dispatching at least
\* one delivery: each such call leaves exactly one delivery that was not
\* overwritten, and so does the call in progress once it has dispatched one.
ReturnedPollsWithDelivery ==
    Len(delivered) - Cardinality(superseded)
        - (IF pc = "in_poll" /\ inPoll > 0 THEN 1 ELSE 0)

\* C24: the buffer is empty each time running is read and when the loop has
\* been left; no delivery is logged, validated or handed to storeValidData
\* more than once; and the insert attempts are at most as many as the
\* mosquitto_loop calls that have returned (already as those that returned
\* with a delivery) and as the deliveries.
C24_BufferEmptyAtTest ==
    /\ (pc = "while" \/ Halted) => receivedMessage = <<>>
    /\ Cardinality(LoggedDeliveries) = Len(logged)
    /\ Len(validated) <= Len(logged)
    /\ Len(attempts) <= Len(validated)
    /\ Len(attempts) <= ReturnedPollsWithDelivery
    /\ Len(attempts) <= Len(delivered)

\* Two sentences came in two calls and each was handed to storeValidData
\* once; running is about to be read.
C24_Witness ==
    /\ pc = "while"
    /\ Len(delivered) = 2
    /\ superseded = {}
    /\ Len(attempts) = 2
    /\ receivedMessage = <<>>


(***************************************************************************)
(* A delivery with an empty payload.                                       *)
(***************************************************************************)

\* No record of the sequence has the empty text in the given field.
NoEmptyText(records, field) == \A r \in 1..Len(records) : records[r][field] # <<>>

\* C25: a delivery with an empty payload leaves the buffer empty, whatever
\* an earlier delivery of the same mosquitto_loop call had put there, and
\* changes nothing else of the program; the loop that finds the buffer
\* empty after the call goes back to the test of running as it does when
\* nothing was delivered; no empty delivery, and no delivery an empty one
\* has overwritten, is ever logged, and no empty text is logged, validated,
\* handed to storeValidData or stored.
C25_EmptyPayloadIsNoDelivery ==
    [][ /\ (delivered' # delivered /\ delivered'[Len(delivered')] = <<>>) =>
              /\ receivedMessage' = <<>>
              /\ inPoll > 0 => Len(delivered) \in superseded'
              /\ <<pc', running', isValid', db', schemaOk', exitCode'>>
                    = <<pc, running, isValid, db, schemaOk, exitCode>>
        /\ (pc = "test" /\ receivedMessage = <<>> /\ pc' # pc) =>
              /\ pc' = "while"
              /\ <<logged', validated', attempts', db'>> = <<logged, validated, attempts, db>>
        /\ \A k \in 1..Len(delivered') :
              delivered'[k] = <<>> =>
                  /\ k \notin LoggedDeliveries'
                  /\ (k - 1) \in superseded' => (k - 1) \notin LoggedDeliveries'
        /\ NoEmptyText(logged', 2)
        /\ NoEmptyText(validated', 1)
        /\ NoEmptyText(attempts', 1)
        /\ \A r \in 1..Len(StoredRows') : StoredRows'[r] # <<>> ]_vars

\* A sentence beginning with $GPRMC was followed by an empty payload in the
\* same call: main has returned and nothing was logged or stored.
C25_Witness ==
    /\ pc = "done"
    /\ Len(delivered) = 2
    /\ BeginsWithGPRMC(delivered[1])
    /\ delivered[2] = <<>>
    /\ superseded = {1}
    /\ logged = <<>>
    /\ validated = <<>>
    /\ StoredRows = <<>>

====
